---- MODULE Spec2Model ----
(***************************************************************************)
(* Model of the startup routine of the widget launcher                     *)
(* (src-tauri/src/lib.rs, fn run): the setup closure looks the main window *)
(* up, sets it always-on-top, resolves the current monitor, reads the      *)
(* window's outer size and moves the window to the monitor's bottom-right  *)
(* corner; afterwards the application's event loop runs.                   *)
(*                                                                         *)
(* The Display Service (tauri's window API) is the environment: every call *)
(* to it returns one of its possible results, chosen nondeterministically  *)
(* when the call is made.                                                  *)
(***************************************************************************)
EXTENDS Integers, Sequences, FiniteSets, TLC

\* ------------------------------------------------------------------ bounds
\* Largest coordinate and dimension the Display Service reports (realistic
\* display geometry: 16-bit screen coordinates).
MaxCoordinate == 32767
\* Number of event-loop iterations followed after the setup closure returned.
MaxEvents == 2

\* --------------------------------------------------------- program constants
\* let margin = 14_i32;
margin == 14
\* PhysicalSize::new(210, 56)
FallbackWidth == 210
FallbackHeight == 56

I32Max == 2147483647
I32Min == (-2147483647) - 1

\* ------------------------------------------------------------ input domains
MonitorXs == {(-MaxCoordinate) - 1, 0, 1920, MaxCoordinate}
MonitorYs == {(-MaxCoordinate) - 1, 0, MaxCoordinate}
MonitorWidths == {0, 100, 1280, 1920, MaxCoordinate}
MonitorHeights == {0, 40, 1024, 1080, MaxCoordinate}
WindowWidths == {0, 210, 400, MaxCoordinate}
WindowHeights == {0, 56, 300, MaxCoordinate}

\* PhysicalPosition<i32>, PhysicalSize<u32>
PhysicalPosition(px, py) == [x |-> px, y |-> py]
PhysicalSize(w, h) == [width |-> w, height |-> h]

\* A monitor as the Display Service reports it: monitor.position(), monitor.size().
Monitors ==
    { [position |-> PhysicalPosition(px, py), size |-> PhysicalSize(w, h)] :
        px \in MonitorXs, py \in MonitorYs, w \in MonitorWidths, h \in MonitorHeights }

WindowSizes == { PhysicalSize(w, h) : w \in WindowWidths, h \in WindowHeights }

\* Option<T>: None is the empty sequence, Some(v) the one-element sequence.
None == << >>
Some(v) == << v >>

\* Result<Option<Monitor>> of window.current_monitor()
MonitorResults ==
    { [kind |-> "Err", monitor |-> None], [kind |-> "Ok", monitor |-> None] }
      \cup { [kind |-> "Ok", monitor |-> Some(m)] : m \in Monitors }

\* Result<PhysicalSize<u32>> of window.outer_size()
SizeResults ==
    { [kind |-> "Err", size |-> None] }
      \cup { [kind |-> "Ok", size |-> Some(s)] : s \in WindowSizes }

\* The position the window has before the setup closure runs (chosen by the
\* operating system or restored by the window-state plugin).
InitialPosition == PhysicalPosition(100, 100)

VARIABLES
    pc,             \* position in run(): the next step of the setup closure
    calls,          \* the calls made to the Display Service, with their outcomes
    always_on_top,  \* the window's always-on-top flag
    position,       \* the window's position
    monitor,        \* Option: the monitor bound by `if let Ok(Some(monitor))`
    window_size,    \* Option: the local window_size
    xy,             \* Option: the locals x, y
    overflowed,     \* an intermediate of x or y left the i32 range
    result,         \* what the setup closure returned: "none", "Ok", "panic"
    events          \* event-loop iterations run since setup returned

vars == << pc, calls, always_on_top, position, monitor, window_size, xy,
           overflowed, result, events >>

\* ------------------------------------------------------------- arithmetic
\* `u as i32` for u: u32: the value modulo 2^32 in the signed range.
ToI32(u) == IF u <= I32Max THEN u ELSE ((u - I32Max) - 1) + I32Min

\* a + b in i32 leaves the i32 range.
AddOverflows(a, b) ==
    \/ b > 0 /\ a > I32Max - b
    \/ b < 0 /\ a < I32Min - b

\* a - b in i32 leaves the i32 range.
SubOverflows(a, b) ==
    \/ b < 0 /\ a > I32Max + b
    \/ b > 0 /\ a < I32Min + b

\* a + b in i32, wrapping (two's complement).
WrappingAdd(a, b) ==
    IF b > 0 /\ a > I32Max - b THEN ((a - I32Max) - 1) + ((b - I32Max) - 1)
    ELSE IF b < 0 /\ a < I32Min - b THEN ((a + I32Max) + 1) + ((b + I32Max) + 1)
    ELSE a + b

\* a - b in i32, wrapping (two's complement).
WrappingSub(a, b) ==
    IF b < 0 /\ a > I32Max + b THEN ((a - I32Max) - 1) - ((b + I32Max) + 1)
    ELSE IF b > 0 /\ a < I32Min + b THEN ((a + I32Max) + 1) - ((b - I32Max) - 1)
    ELSE a - b

\* The mutant of CornerAxis: the two sizes subtracted as u32 before the
\* conversion, `(monitor_size.width - window_size.width) as i32`, which
\* underflows whenever the window is larger than the monitor.
CornerAxisUnsignedSub(pos, msize, wsize) ==
    [ value |-> WrappingSub(WrappingAdd(pos, ToI32(msize) - ToI32(wsize)), margin),
      overflow |-> wsize > msize ]

\* The mutant of CornerAxis: the margin added instead of subtracted.
CornerAxisMarginAdded(pos, msize, wsize) ==
    [ value |-> WrappingAdd(WrappingSub(WrappingAdd(pos, ToI32(msize)), ToI32(wsize)), margin),
      overflow |-> FALSE ]

\* The mutant of CornerAxis: the coordinate clamped to the monitor's origin.
CornerAxisClamped(pos, msize, wsize) ==
    LET v == WrappingSub(WrappingSub(WrappingAdd(pos, ToI32(msize)), ToI32(wsize)), margin)
    IN  [ value |-> IF v < pos THEN pos ELSE v, overflow |-> FALSE ]

\* One axis of lines 21-22, evaluated left to right in i32:
\*   monitor_pos.x + monitor_size.width as i32 - window_size.width as i32 - margin
CornerAxis(pos, msize, wsize) ==
    LET m  == ToI32(msize)
        w  == ToI32(wsize)
        s1 == WrappingAdd(pos, m)
        s2 == WrappingSub(s1, w)
        s3 == WrappingSub(s2, margin)
    IN  [ value    |-> s3,
          overflow |-> \/ AddOverflows(pos, m)
                       \/ SubOverflows(s1, w)
                       \/ SubOverflows(s2, margin) ]

\* ------------------------------------------------------------------ state
\* One entry of the call log: the call, its outcome ("Ok", "Err", "None") and
\* the value it returned or was given (an Option).
Call(name, outcome, value) == [call |-> name, result |-> outcome, value |-> value]

Init ==
    /\ pc = "get_webview_window"
    /\ calls = << >>
    /\ always_on_top = FALSE
    /\ position = InitialPosition
    /\ monitor = None
    /\ window_size = None
    /\ xy = None
    /\ overflowed = FALSE
    /\ result = "none"
    /\ events = 0

\* ---------------------------------------------------------------- actions
\* The mutant of GetWebviewWindow: the window is unwrapped,
\* `app.get_webview_window("main").unwrap()`, which panics when it is missing.
GetWebviewWindowUnwrap ==
    /\ pc = "get_webview_window"
    /\ \E found \in BOOLEAN :
        /\ calls' = Append(calls, Call("get_webview_window", IF found THEN "Ok" ELSE "None", None))
        /\ pc' = IF found THEN "set_always_on_top" ELSE "panicked"
        /\ result' = IF found THEN result ELSE "panic"
    /\ UNCHANGED << always_on_top, position, monitor, window_size, xy, overflowed, events >>

\* line 13: if let Some(window) = app.get_webview_window("main")
GetWebviewWindow ==
    /\ pc = "get_webview_window"
    /\ \E found \in BOOLEAN :
        /\ calls' = Append(calls, Call("get_webview_window", IF found THEN "Ok" ELSE "None", None))
        /\ pc' = IF found THEN "set_always_on_top" ELSE "return"
    /\ UNCHANGED << always_on_top, position, monitor, window_size, xy, overflowed,
                    result, events >>

\* The mutant of SetAlwaysOnTop: a failure ends the sequence,
\* `if window.set_always_on_top(true).is_ok() { ... }`.
SetAlwaysOnTopShortCircuit ==
    /\ pc = "set_always_on_top"
    /\ \E ok \in BOOLEAN :
        /\ calls' = Append(calls, Call("set_always_on_top", IF ok THEN "Ok" ELSE "Err", None))
        /\ always_on_top' = IF ok THEN TRUE ELSE always_on_top
        /\ pc' = IF ok THEN "current_monitor" ELSE "return"
    /\ UNCHANGED << position, monitor, window_size, xy, overflowed, result, events >>

\* line 14: let _ = window.set_always_on_top(true);
SetAlwaysOnTop ==
    /\ pc = "set_always_on_top"
    /\ \E ok \in BOOLEAN :
        /\ calls' = Append(calls, Call("set_always_on_top", IF ok THEN "Ok" ELSE "Err", None))
        /\ always_on_top' = IF ok THEN TRUE ELSE always_on_top
    /\ pc' = "current_monitor"
    /\ UNCHANGED << position, monitor, window_size, xy, overflowed, result, events >>

\* The outcome of a current_monitor() result as the call log records it.
MonitorOutcome(r) ==
    IF r.kind = "Err" THEN "Err" ELSE IF r.monitor = None THEN "None" ELSE "Ok"

\* The mutant of CurrentMonitor: when no monitor is reported the routine goes
\* on with a default one, `.ok().flatten().unwrap_or(primary)`.
CurrentMonitorDefault ==
    /\ pc = "current_monitor"
    /\ \E r \in MonitorResults :
        /\ calls' = Append(calls, Call("current_monitor", MonitorOutcome(r), r.monitor))
        /\ monitor' = IF r.kind = "Ok" /\ r.monitor # None
                      THEN r.monitor
                      ELSE Some([position |-> PhysicalPosition(0, 0),
                                 size |-> PhysicalSize(1920, 1080)])
    /\ pc' = "outer_size"
    /\ UNCHANGED << always_on_top, position, window_size, xy, overflowed, result, events >>

\* lines 15-17: if let Ok(Some(monitor)) = window.current_monitor()
CurrentMonitor ==
    /\ pc = "current_monitor"
    /\ \E r \in MonitorResults :
        /\ calls' = Append(calls, Call("current_monitor", MonitorOutcome(r), r.monitor))
        /\ IF r.kind = "Ok" /\ r.monitor # None
           THEN monitor' = r.monitor /\ pc' = "outer_size"
           ELSE monitor' = monitor /\ pc' = "return"
    /\ UNCHANGED << always_on_top, position, window_size, xy, overflowed, result, events >>

\* The mutant of OuterSize: the default size instead of the fallback,
\* `window.outer_size().unwrap_or_default()`.
OuterSizeUnwrapOrDefault ==
    /\ pc = "outer_size"
    /\ \E r \in SizeResults :
        /\ calls' = Append(calls, Call("outer_size", r.kind, r.size))
        /\ window_size' = IF r.kind = "Ok" THEN r.size ELSE Some(PhysicalSize(0, 0))
    /\ pc' = "compute"
    /\ UNCHANGED << always_on_top, position, monitor, xy, overflowed, result, events >>

\* The mutant of OuterSize: a failed size query ends the sequence,
\* `if let Ok(window_size) = window.outer_size() { ... }`.
OuterSizeShortCircuit ==
    /\ pc = "outer_size"
    /\ \E r \in SizeResults :
        /\ calls' = Append(calls, Call("outer_size", r.kind, r.size))
        /\ IF r.kind = "Ok"
           THEN window_size' = r.size /\ pc' = "compute"
           ELSE window_size' = window_size /\ pc' = "return"
    /\ UNCHANGED << always_on_top, position, monitor, xy, overflowed, result, events >>

\* line 18: window.outer_size().unwrap_or(PhysicalSize::new(210, 56))
OuterSize ==
    /\ pc = "outer_size"
    /\ \E r \in SizeResults :
        /\ calls' = Append(calls, Call("outer_size", r.kind, r.size))
        /\ window_size' = IF r.kind = "Ok"
                          THEN r.size
                          ELSE Some(PhysicalSize(FallbackWidth, FallbackHeight))
    /\ pc' = "compute"
    /\ UNCHANGED << always_on_top, position, monitor, xy, overflowed, result, events >>

\* lines 19-22: let x = ...; let y = ...;  An overflowing i32 operation wraps
\* in a build without overflow checks and panics in a build with them.
ComputePosition ==
    /\ pc = "compute"
    /\ LET m  == monitor[1]
           w  == window_size[1]
           cx == CornerAxis(m.position.x, m.size.width, w.width)
           cy == CornerAxis(m.position.y, m.size.height, w.height)
       IN  /\ overflowed' = (cx.overflow \/ cy.overflow)
           /\ \E checks \in IF cx.overflow \/ cy.overflow THEN BOOLEAN ELSE {FALSE} :
                IF checks
                THEN xy' = xy /\ pc' = "panicked" /\ result' = "panic"
                ELSE /\ xy' = Some(PhysicalPosition(cx.value, cy.value))
                     /\ pc' = "set_position"
                     /\ result' = result
    /\ UNCHANGED << calls, always_on_top, position, monitor, window_size, events >>

\* The mutant of SetPosition: the error is propagated,
\* `window.set_position(...)?`, so that the setup closure returns Err.
SetPositionPropagate ==
    /\ pc = "set_position"
    /\ \E ok \in BOOLEAN :
        /\ calls' = Append(calls, Call("set_position", IF ok THEN "Ok" ELSE "Err", xy))
        /\ position' = IF ok THEN xy[1] ELSE position
        /\ pc' = IF ok THEN "return" ELSE "failed"
        /\ result' = IF ok THEN result ELSE "Err"
    /\ UNCHANGED << always_on_top, monitor, window_size, xy, overflowed, events >>

\* line 23: let _ = window.set_position(Position::Physical(PhysicalPosition::new(x, y)));
SetPosition ==
    /\ pc = "set_position"
    /\ \E ok \in BOOLEAN :
        /\ calls' = Append(calls, Call("set_position", IF ok THEN "Ok" ELSE "Err", xy))
        /\ position' = IF ok THEN xy[1] ELSE position
    /\ pc' = "return"
    /\ UNCHANGED << always_on_top, monitor, window_size, xy, overflowed, result, events >>

\* line 26: Ok(())
Return ==
    /\ pc = "return"
    /\ result' = "Ok"
    /\ pc' = "idle"
    /\ UNCHANGED << calls, always_on_top, position, monitor, window_size, xy,
                    overflowed, events >>

\* The mutant of RunEvent: a window event handler that places the window again.
RunEventReposition ==
    /\ pc = "idle"
    /\ events < MaxEvents
    /\ events' = events + 1
    /\ calls' = IF xy # None THEN Append(calls, Call("set_position", "Ok", xy)) ELSE calls
    /\ position' = IF xy # None THEN xy[1] ELSE position
    /\ UNCHANGED << pc, always_on_top, monitor, window_size, xy, overflowed, result >>

\* lines 28-29: .run(tauri::generate_context!()): the event loop; the builder
\* registers no window-event handler and no command, so an event changes
\* nothing of the placement.
RunEvent ==
    /\ pc = "idle"
    /\ events < MaxEvents
    /\ events' = events + 1
    /\ UNCHANGED << pc, calls, always_on_top, position, monitor, window_size, xy,
                    overflowed, result >>

Next ==
    \/ GetWebviewWindow
    \/ SetAlwaysOnTop
    \/ CurrentMonitor
    \/ OuterSize
    \/ ComputePosition
    \/ SetPosition
    \/ Return
    \/ RunEvent

Spec == Init /\ [][Next]_vars

\* ------------------------------------------------------------- properties
\* The indices of the call log entries of one call.
CallsOf(name) == { i \in 1..Len(calls) : calls[i].call = name }
Called(name) == CallsOf(name) # {}
\* Some call of that name had that outcome.
Outcome(name, outcome) == \E i \in CallsOf(name) : calls[i].result = outcome
\* The names of the calls made, in order.
CallNames == [ i \in 1..Len(calls) |-> calls[i].call ]
\* The setup closure is over: it is about to return or has returned.
SetupOver == pc \in {"return", "idle"}

Scenario1Monitor ==
    [position |-> PhysicalPosition(0, 0), size |-> PhysicalSize(1920, 1080)]
Scenario2Monitor ==
    [position |-> PhysicalPosition(1920, 0), size |-> PhysicalSize(1280, 1024)]

\* C1: whenever set_position is called with (x, y), for the monitor M resolved
\* and the window size W used (queried or fallback):
\*   x + W.width + 14 = M.position.x + M.size.width and
\*   y + W.height + 14 = M.position.y + M.size.height;
\* M = (0,0) 1920x1080 with W = 210x56 gives (1696, 1010); a successful call
\* leaves the window at (x, y).
C1_CornerAnchored ==
    \A i \in CallsOf("set_position") :
        LET p == calls[i].value[1]
            m == monitor[1]
            w == window_size[1]
        IN  /\ p.x + w.width + 14 = m.position.x + m.size.width
            /\ p.y + w.height + 14 = m.position.y + m.size.height
            /\ p.x = m.position.x + m.size.width - w.width - 14
            /\ p.y = m.position.y + m.size.height - w.height - 14
            /\ (m = Scenario1Monitor /\ w = PhysicalSize(210, 56))
                   => p = PhysicalPosition(1696, 1010)
            /\ calls[i].result = "Ok" => position = p

C1_Witness ==
    /\ Outcome("set_position", "Ok")
    /\ Outcome("outer_size", "Ok")
    /\ monitor = Some(Scenario1Monitor)
    /\ window_size = Some(PhysicalSize(210, 56))
    /\ position = PhysicalPosition(1696, 1010)

\* C2: when the lookup of the main window fails, no other call is made to the
\* Display Service (no set-always-on-top, no monitor or size query, no
\* set-position), the window is left as it was, and the setup closure returns
\* Ok without a panic.
C2_WindowNotFoundAbsorbed ==
    Outcome("get_webview_window", "None") =>
        /\ calls = << Call("get_webview_window", "None", None) >>
        /\ always_on_top = FALSE
        /\ position = InitialPosition
        /\ monitor = None /\ window_size = None /\ xy = None
        /\ SetupOver
        /\ result = IF pc = "idle" THEN "Ok" ELSE "none"

C2_Witness ==
    /\ Outcome("get_webview_window", "None")
    /\ pc = "idle"
    /\ result = "Ok"
    /\ events = MaxEvents

\* C3: when the outer-size query fails, the size used is the fallback 210x56
\* (never zero, never undefined) and the position passed to set_position is
\* computed from it: for M = (1920,0) 1280x1024 it is (2976, 954).  When the
\* query succeeds, the size used is the size it returned.
C3_FallbackSize ==
    \A i \in CallsOf("outer_size") :
        /\ window_size # None
        /\ calls[i].result = "Err" =>
            /\ window_size = Some(PhysicalSize(210, 56))
            /\ \A j \in CallsOf("set_position") :
                /\ calls[j].value[1].x = monitor[1].position.x + monitor[1].size.width - 210 - 14
                /\ calls[j].value[1].y = monitor[1].position.y + monitor[1].size.height - 56 - 14
                /\ monitor = Some(Scenario2Monitor)
                       => calls[j].value[1] = PhysicalPosition(2976, 954)
        /\ calls[i].result = "Ok" => window_size = calls[i].value

C3_Witness ==
    /\ Outcome("outer_size", "Err")
    /\ monitor = Some(Scenario2Monitor)
    /\ Outcome("set_position", "Ok")
    /\ position = PhysicalPosition(2976, 954)

\* C4: when monitor resolution fails (an error, or no monitor), the window
\* size is not queried, set_position is not called, the window's position is
\* left unchanged and the setup closure goes on to return.
C4_MonitorUnresolvedAbsorbed ==
    (Outcome("current_monitor", "Err") \/ Outcome("current_monitor", "None")) =>
        /\ ~Called("outer_size")
        /\ ~Called("set_position")
        /\ position = InitialPosition
        /\ monitor = None /\ window_size = None /\ xy = None
        /\ SetupOver
        /\ result = IF pc = "idle" THEN "Ok" ELSE "none"

C4_Witness ==
    /\ Outcome("current_monitor", "None")
    /\ Outcome("set_always_on_top", "Ok")
    /\ always_on_top
    /\ pc = "idle"
    /\ position = InitialPosition

\* C5: whatever the outcomes of the five fallible steps, the setup closure
\* never panics and never returns an error: each step can be taken until the
\* closure has returned, and it returns Ok.
C5_NeverFatal ==
    /\ pc \in {"get_webview_window", "set_always_on_top", "current_monitor",
               "outer_size", "compute", "set_position", "return", "idle"}
    /\ result = IF pc = "idle" THEN "Ok" ELSE "none"
    /\ pc # "idle" => ENABLED Next

C5_Witness ==
    /\ pc = "idle"
    /\ result = "Ok"
    /\ Outcome("set_always_on_top", "Err")
    /\ Outcome("outer_size", "Err")
    /\ Outcome("set_position", "Err")
    /\ ~always_on_top
    /\ position = InitialPosition

FallibleCalls ==
    {"get_webview_window", "set_always_on_top", "current_monitor", "outer_size",
     "set_position"}

\* C6: no retry and no re-entry: each of the five calls is made at most once,
\* whatever its outcome; when the setup closure has returned, the lookup was
\* made once, set-always-on-top and the monitor resolution once if the lookup
\* succeeded, the size query and set-position once if a monitor was resolved;
\* and once Idle is reached no call is made and the window is not moved again.
C6_NoRetry ==
    /\ [](\A name \in FallibleCalls : Cardinality(CallsOf(name)) <= 1)
    /\ [](pc = "idle" =>
            /\ Cardinality(CallsOf("get_webview_window")) = 1
            /\ Outcome("get_webview_window", "Ok") =>
                /\ Cardinality(CallsOf("set_always_on_top")) = 1
                /\ Cardinality(CallsOf("current_monitor")) = 1
            /\ Outcome("current_monitor", "Ok") =>
                /\ Cardinality(CallsOf("outer_size")) = 1
                /\ Cardinality(CallsOf("set_position")) = 1)
    /\ [][pc = "idle" => (pc' = "idle" /\ calls' = calls /\ position' = position
                            /\ always_on_top' = always_on_top /\ xy' = xy)]_vars

C6_Witness ==
    /\ pc = "idle"
    /\ events = MaxEvents
    /\ CallNames = << "get_webview_window", "set_always_on_top", "current_monitor",
                      "outer_size", "set_position" >>
    /\ Outcome("set_always_on_top", "Err")
    /\ Outcome("set_position", "Err")

\* C7 as stated: after any one of the five steps fails, no later step of the
\* sequence is executed, and the routine still ends in Idle with success.
C7_AnyFailureShortCircuits ==
    /\ \A i \in 1..Len(calls) : calls[i].result \in {"Err", "None"} => i = Len(calls)
    /\ result = IF pc = "idle" THEN "Ok" ELSE "none"

\* C7 amended: a failed window lookup and a failed monitor resolution end the
\* sequence (no later call is made); a failed set-always-on-top does not (the
\* monitor resolution follows it) and a failed size query does not
\* (set-position follows it, with the fallback size); set-position is the last
\* call; in every case the closure returns Ok.
C7_FailureShortCircuitsOrContinues ==
    /\ \A i \in 1..Len(calls) :
        /\ (calls[i].call \in {"get_webview_window", "current_monitor"}
              /\ calls[i].result \in {"Err", "None"}) => i = Len(calls)
        /\ (calls[i].call = "set_always_on_top" /\ calls[i].result = "Err"
              /\ pc # "current_monitor")
             => (Len(calls) > i /\ calls[i + 1].call = "current_monitor")
        /\ (calls[i].call = "outer_size" /\ calls[i].result = "Err"
              /\ pc \notin {"compute", "set_position"})
             => (Len(calls) > i /\ calls[i + 1].call = "set_position"
                   /\ window_size = Some(PhysicalSize(210, 56)))
        /\ calls[i].call = "set_position" => i = Len(calls)
    /\ result = IF pc = "idle" THEN "Ok" ELSE "none"

C7_Witness ==
    /\ pc = "idle"
    /\ result = "Ok"
    /\ Outcome("set_always_on_top", "Err")
    /\ Outcome("outer_size", "Err")
    /\ Outcome("set_position", "Ok")
    /\ position = xy[1]

\* C8: the position is never clamped: on an axis where the window size used
\* is larger than the monitor size, the coordinate passed to set_position is
\* smaller than the monitor's origin on that axis, and it is the value of the
\* formula M.position + M.size - W.size - 14 unchanged.
C8_NotClamped ==
    \A i \in CallsOf("set_position") :
        LET p == calls[i].value[1]
            m == monitor[1]
            w == window_size[1]
        IN  /\ w.width > m.size.width =>
                /\ p.x < m.position.x
                /\ p.x - m.position.x = m.size.width - w.width - 14
            /\ w.height > m.size.height =>
                /\ p.y < m.position.y
                /\ p.y - m.position.y = m.size.height - w.height - 14

C8_Witness ==
    /\ Outcome("set_position", "Ok")
    /\ window_size[1].width > monitor[1].size.width
    /\ window_size[1].height > monitor[1].size.height
    /\ position.x < monitor[1].position.x
    /\ position.y < monitor[1].position.y

\* C9: set_position is called if and only if the window lookup succeeded and
\* the monitor resolution returned a monitor, whether or not set-always-on-top
\* or the size query failed; and it is called after set-always-on-top, the
\* monitor resolution and the size query, in that order.
C9_SetPositionIff ==
    /\ SetupOver =>
        (Called("set_position") <=>
            (Outcome("get_webview_window", "Ok") /\ Outcome("current_monitor", "Ok")))
    /\ Called("set_position") =>
        CallNames = << "get_webview_window", "set_always_on_top", "current_monitor",
                       "outer_size", "set_position" >>

C9_Witness ==
    /\ SetupOver
    /\ Outcome("set_always_on_top", "Err")
    /\ Outcome("outer_size", "Err")
    /\ Called("set_position")
    /\ events = 0

\* C10: for a monitor position in [-32768, 32767] and monitor and window
\* dimensions in [0, 32767], the conversions to i32 keep the values, every
\* intermediate of the x and y expressions, taken left to right, stays in
\* [-2^31, 2^31-1], no overflow occurs (and so no overflow panic), and x and y
\* are the values of the exact integer formula.
C10_NoOverflowInRange ==
    (pc \notin {"get_webview_window", "set_always_on_top", "current_monitor",
                "outer_size", "compute"}
        /\ monitor # None /\ window_size # None) =>
        LET m == monitor[1]
            w == window_size[1]
            InRange ==
                /\ m.position.x \in (-32768)..32767 /\ m.position.y \in (-32768)..32767
                /\ m.size.width \in 0..32767 /\ m.size.height \in 0..32767
                /\ w.width \in 0..32767 /\ w.height \in 0..32767
            I32 == I32Min..I32Max
        IN  InRange =>
                /\ ToI32(m.size.width) = m.size.width
                /\ ToI32(m.size.height) = m.size.height
                /\ ToI32(w.width) = w.width
                /\ ToI32(w.height) = w.height
                /\ m.position.x + m.size.width \in I32
                /\ m.position.x + m.size.width - w.width \in I32
                /\ m.position.x + m.size.width - w.width - 14 \in I32
                /\ m.position.y + m.size.height \in I32
                /\ m.position.y + m.size.height - w.height \in I32
                /\ m.position.y + m.size.height - w.height - 14 \in I32
                /\ ~overflowed
                /\ pc # "panicked"
                /\ xy = Some(PhysicalPosition(
                                m.position.x + m.size.width - w.width - 14,
                                m.position.y + m.size.height - w.height - 14))

C10_Witness ==
    /\ pc = "set_position"
    /\ monitor = Some([position |-> PhysicalPosition(-32768, -32768),
                       size |-> PhysicalSize(0, 0)])
    /\ window_size = Some(PhysicalSize(32767, 32767))
    /\ xy = Some(PhysicalPosition(-65549, -65549))
    /\ ~overflowed

====
